---- MODULE Spec2Model ----
(***************************************************************************)
(* Tenant resolution and request-rewriting middleware of use-next-ship.    *)
(*                                                                         *)
(* Strings are sequences of one-character strings, so that the string      *)
(* operations of the source (toLowerCase, trim, split, slice, startsWith,  *)
(* endsWith, includes, the regular expressions) are computed position by   *)
(* position, as the source computes them.                                  *)
(***************************************************************************)
EXTENDS Integers, Sequences, FiniteSets, TLC

----------------------------------------------------------------------------
(* State *)

VARIABLES
  env,          \* process.env, read once at start
  now,          \* Date.now(), in ms
  pc,           \* where middleware stands: "idle", "fetch", "json", "done"
  req,          \* the inbound request: headers, pathname, search
  startTime,    \* middleware's startTime
  originalHost, \* middleware's originalHost: null or the normalized host
  call,         \* the lookup request handed to fetch
  aborted,      \* controller.signal.aborted
  timer,        \* the abort timer: armed, deadline
  lookups,      \* number of fetch calls issued by the current request
  reply,        \* what the lookup call did: settled, status, body
  tenant,       \* the value resolveTenantByHostname returned
  result,       \* what middleware returned, or that it threw
  logs,         \* console.warn / console.error entries of the current request
  served,       \* number of requests begun
  lastFailed,   \* history: the host whose lookup failed in the last request
  failures,     \* history: consecutive requests for lastFailed whose lookup failed
  probe,        \* a single call of a pure function: fn, arg, ret, done
  store,        \* the organization table: a set of rows id, slug, customDomain
  endpoint,     \* the resolve endpoint: pc, request, response, queries, logs
  inv,          \* concurrent invocations of middleware, each with its own locals
  lastReturned  \* history: the tenant a resolver call returned last, in any invocation

vars ==
  <<env, now, pc, req, startTime, originalHost, call, aborted, timer, lookups,
    reply, tenant, result, logs, served, lastFailed, failures, probe, store,
    endpoint, inv, lastReturned>>

----------------------------------------------------------------------------
(* JavaScript values *)

\* null and undefined, and a string value, as tagged records
Null == [t |-> "null"]
Undefined == [t |-> "undefined"]
Str(s) == [t |-> "str", v |-> s]
Num(n) == [t |-> "num", n |-> n]

Bool(b) == [t |-> "bool", b |-> b]
IsNullish(x) == x.t \in {"null", "undefined"}

\* JavaScript truthiness of a value: null, undefined, "" and 0 are falsy
Truthy(x) ==
  CASE x.t = "str" -> x.v # <<>>
    [] x.t = "num" -> x.n # 0
    [] x.t \in {"null", "undefined"} -> FALSE
    [] OTHER -> TRUE

----------------------------------------------------------------------------
(* Characters and string operations *)

LowerLetters == <<"a", "b", "c", "d", "e", "f", "g", "h", "i", "j", "k", "l", "m",
                  "n", "o", "p", "q", "r", "s", "t", "u", "v", "w", "x", "y", "z">>
UpperLetters == <<"A", "B", "C", "D", "E", "F", "G", "H", "I", "J", "K", "L", "M",
                  "N", "O", "P", "Q", "R", "S", "T", "U", "V", "W", "X", "Y", "Z">>
Range(s) == {s[i] : i \in 1..Len(s)}
Lower == Range(LowerLetters)
Upper == Range(UpperLetters)
Digit == {"0", "1", "2", "3", "4", "5", "6", "7", "8", "9"}
Whitespace == {" ", "\t", "\n", "\r"}

\* the grave accent, written as a token
Backtick == "GRAVE"

\* one code unit outside Latin-1 (U+65E5), written as a token
NonLatin1Char == "U+65E5"

ToLowerChar(c) ==
  IF c \in Upper
    THEN LowerLetters[CHOOSE i \in 1..Len(UpperLetters) : UpperLetters[i] = c]
    ELSE c

toLowerCase(s) == [i \in 1..Len(s) |-> ToLowerChar(s[i])]

RECURSIVE trimStart(_)
trimStart(s) ==
  IF s # <<>> /\ Head(s) \in Whitespace THEN trimStart(Tail(s)) ELSE s

RECURSIVE trimEnd(_)
trimEnd(s) ==
  IF s # <<>> /\ s[Len(s)] \in Whitespace
    THEN trimEnd(SubSeq(s, 1, Len(s) - 1))
    ELSE s

trim(s) == trimEnd(trimStart(s))

startsWith(s, p) == Len(p) <= Len(s) /\ SubSeq(s, 1, Len(p)) = p
endsWith(s, p) == Len(p) <= Len(s) /\ SubSeq(s, Len(s) - Len(p) + 1, Len(s)) = p
includes(s, p) ==
  \E i \in 1..(Len(s) - Len(p) + 1) : SubSeq(s, i, i + Len(p) - 1) = p

\* s.slice(n) for n >= 0, and s.slice(0, -n) for n > 0
sliceFrom(s, n) == SubSeq(s, n + 1, Len(s))
sliceDropLast(s, n) == SubSeq(s, 1, Len(s) - n)

\* s.split(c)[0]: the part of s before the first c, all of s when it has none
splitFirst(s, c) ==
  IF c \in Range(s)
    THEN SubSeq(s, 1, (CHOOSE i \in 1..Len(s) :
                         s[i] = c /\ \A j \in 1..(i - 1) : s[j] # c) - 1)
    ELSE s

\* the part of s after the first c (s has one)
afterFirst(s, c) ==
  SubSeq(s, (CHOOSE i \in 1..Len(s) :
               s[i] = c /\ \A j \in 1..(i - 1) : s[j] # c) + 1, Len(s))

AllIn(s, chars) == \A i \in 1..Len(s) : s[i] \in chars

----------------------------------------------------------------------------
(* Environment configuration *)

PORT_DEFAULT == <<"3", "0", "0", "0">>
LOCALHOST == <<"l", "o", "c", "a", "l", "h", "o", "s", "t">>
HTTP_SCHEME == <<"h", "t", "t", "p", ":", "/", "/">>
HTTPS_SCHEME == <<"h", "t", "t", "p", "s", ":", "/", "/">>

\* process.env.PORT ?? "3000"
PORT(e) == IF IsNullish(e.PORT) THEN PORT_DEFAULT ELSE e.PORT.v

\* process.env.NEXT_PUBLIC_BASE_URL ?? `http://localhost:${PORT}`
BASE_URL(e) ==
  IF IsNullish(e.NEXT_PUBLIC_BASE_URL)
    THEN HTTP_SCHEME \o LOCALHOST \o <<":">> \o PORT(e)
    ELSE e.NEXT_PUBLIC_BASE_URL.v

\* s.replace(/^https?:\/\//, "")
stripScheme(s) ==
  IF startsWith(s, HTTPS_SCHEME) THEN sliceFrom(s, Len(HTTPS_SCHEME))
  ELSE IF startsWith(s, HTTP_SCHEME) THEN sliceFrom(s, Len(HTTP_SCHEME))
  ELSE s

ROOT_DOMAIN(e) ==
  toLowerCase(splitFirst(
    IF IsNullish(e.NEXT_PUBLIC_BASE_URL)
      THEN LOCALHOST \o <<":">> \o PORT(e)
      ELSE stripScheme(e.NEXT_PUBLIC_BASE_URL.v),
    ":"))

INTERNAL_API_SECRET(e) == e.INTERNAL_API_SECRET

DigitSeq == <<"0", "1", "2", "3", "4", "5", "6", "7", "8", "9">>
DigitValue(c) == (CHOOSE i \in 1..10 : DigitSeq[i] = c) - 1

\* the value of a string of decimal digits
RECURSIVE decimalValue(_)
decimalValue(ds) ==
  IF ds = <<>> THEN 0
  ELSE 10 * decimalValue(SubSeq(ds, 1, Len(ds) - 1)) + DigitValue(ds[Len(ds)])

\* the longest prefix of s made of decimal digits
RECURSIVE digitPrefix(_)
digitPrefix(s) ==
  IF s # <<>> /\ Head(s) \in Digit THEN <<Head(s)>> \o digitPrefix(Tail(s)) ELSE <<>>

NaN == [t |-> "nan"]

\* parseInt(s, 10) of a string without sign: the leading digits, NaN without any
parseInt(s) ==
  LET ds == digitPrefix(trimStart(s))
  IN IF ds = <<>> THEN NaN ELSE Num(decimalValue(ds))

FETCH_TIMEOUT_DEFAULT == <<"5", "0", "0", "0">>

\* parseInt(process.env.FETCH_TIMEOUT ?? "5000", 10)
FETCH_TIMEOUT(e) ==
  parseInt(IF IsNullish(e.FETCH_TIMEOUT) THEN FETCH_TIMEOUT_DEFAULT
           ELSE e.FETCH_TIMEOUT.v)

\* setTimeout(cb, delay): a delay that is NaN or below 1 is taken as 1 ms
timerDelay(delay) == IF delay.t = "nan" \/ delay.n < 1 THEN 1 ELSE delay.n

\* n.toString() of a non-negative integer
RECURSIVE toString(_)
toString(n) ==
  IF n < 10 THEN <<DigitSeq[n + 1]>>
  ELSE toString(n \div 10) \o <<DigitSeq[(n % 10) + 1]>>

----------------------------------------------------------------------------
(* Host Validator *)

MaxHostLength == 253
MaxPortDigits == 5

\* /^[a-z0-9.-]+(?::\d{1,5})?$/
hostRegex(raw) ==
  LET name == splitFirst(raw, ":")
      hostChars == Lower \cup Digit \cup {".", "-"}
  IN /\ name # <<>>
     /\ AllIn(name, hostChars)
     /\ \/ ":" \notin Range(raw)
        \/ LET port == afterFirst(raw, ":")
           IN /\ Len(port) >= 1
              /\ Len(port) <= MaxPortDigits
              /\ AllIn(port, Digit)

JAVASCRIPT_COLON == <<"j", "a", "v", "a", "s", "c", "r", "i", "p", "t", ":">>

\* faulty variant: the path-traversal pattern is missing
suspiciousWithoutTraversal(raw) ==
  \/ Range(raw) \cap {"<", ">"} # {}
  \/ Range(raw) \cap {"'", "\"", Backtick} # {}
  \/ Range(raw) \cap {"{", "}"} # {}
  \/ includes(toLowerCase(raw), JAVASCRIPT_COLON)

\* suspiciousPatterns.some((pattern) => pattern.test(raw))
suspicious(raw) ==
  \/ includes(raw, <<".", ".">>)
  \/ Range(raw) \cap {"<", ">"} # {}
  \/ Range(raw) \cap {"'", "\"", Backtick} # {}
  \/ Range(raw) \cap {"{", "}"} # {}
  \/ includes(toLowerCase(raw), JAVASCRIPT_COLON)

WWW_DOT == <<"w", "w", "w", ".">>

\* host.replace(/\.$/, "")
stripTrailingDot(s) ==
  IF s # <<>> /\ s[Len(s)] = "." THEN SubSeq(s, 1, Len(s) - 1) ELSE s

\* faulty variant: the length of the header is not checked
normalizeAndValidateHostAnyLength(hostHeader) ==
  IF ~Truthy(hostHeader) THEN Null
  ELSE
    LET raw == trim(toLowerCase(hostHeader.v))
    IN IF ~hostRegex(raw) THEN Null
       ELSE IF suspicious(raw) THEN Null
       ELSE
         LET host == stripTrailingDot(splitFirst(raw, ":"))
         IN Str(IF startsWith(host, WWW_DOT) THEN sliceFrom(host, 4) ELSE host)

normalizeAndValidateHost(hostHeader) ==
  IF ~Truthy(hostHeader) THEN Null
  ELSE
    LET raw == trim(toLowerCase(hostHeader.v))
    IN IF ~hostRegex(raw) \/ Len(raw) > MaxHostLength THEN Null
       ELSE IF suspicious(raw) THEN Null
       ELSE
         LET host == stripTrailingDot(splitFirst(raw, ":"))
         IN Str(IF startsWith(host, WWW_DOT) THEN sliceFrom(host, 4) ELSE host)

----------------------------------------------------------------------------
(* Slug validity *)

RESERVED_SLUGS ==
  { <<"a", "p", "i">>,
    <<"_", "n", "e", "x", "t">>,
    <<"s", "t", "a", "t", "i", "c">>,
    <<"p", "u", "b", "l", "i", "c">>,
    <<"a", "d", "m", "i", "n">>,
    <<"h", "e", "a", "l", "t", "h", "z">>,
    <<".", "w", "e", "l", "l", "-", "k", "n", "o", "w", "n">>,
    <<"f", "a", "v", "i", "c", "o", "n", ".", "i", "c", "o">>,
    <<"r", "o", "b", "o", "t", "s", ".", "t", "x", "t">>,
    <<"s", "i", "t", "e", "m", "a", "p", ".", "x", "m", "l">> }

MinSlugLength == 3
MaxSlugLength == 63

\* /^[a-z0-9-]{3,63}$/
slugRegex(slug) ==
  /\ Len(slug) >= MinSlugLength
  /\ Len(slug) <= MaxSlugLength
  /\ AllIn(slug, Lower \cup Digit \cup {"-"})

\* faulty variant: the reserved words are not checked
isSlugValidWithoutReserved(slug) ==
  IF ~slugRegex(slug) THEN FALSE
  ELSE IF startsWith(slug, <<"-">>) \/ endsWith(slug, <<"-">>)
            \/ includes(slug, <<"-", "-">>) THEN FALSE
  ELSE TRUE

\* faulty variant: a trailing hyphen is let through
isSlugValidTrailingHyphen(slug) ==
  IF slug \in RESERVED_SLUGS THEN FALSE
  ELSE IF ~slugRegex(slug) THEN FALSE
  ELSE IF startsWith(slug, <<"-">>) \/ includes(slug, <<"-", "-">>) THEN FALSE
  ELSE TRUE

isSlugValid(slug) ==
  IF slug \in RESERVED_SLUGS THEN FALSE
  ELSE IF ~slugRegex(slug) THEN FALSE
  ELSE IF startsWith(slug, <<"-">>) \/ endsWith(slug, <<"-">>)
            \/ includes(slug, <<"-", "-">>) THEN FALSE
  ELSE TRUE

----------------------------------------------------------------------------
(* JSON payloads and request headers *)

\* tenant.<name> of a parsed payload: a field of an object, undefined otherwise
\* (reading a field of null throws: see jsonSettles)
field(tn, name) == IF tn.t = "obj" THEN tn[name] ELSE Undefined

UNDEFINED_TEXT == <<"u", "n", "d", "e", "f", "i", "n", "e", "d">>
NULL_TEXT == <<"n", "u", "l", "l">>

\* String(x), as applied by template literals and by Headers.set
toJsString(x) ==
  CASE x.t = "str" -> x.v
    [] x.t = "num" -> toString(x.n)
    [] x.t = "null" -> NULL_TEXT
    [] OTHER -> UNDEFINED_TEXT

\* a header value is a byte string without NUL, CR or LF
headerValueValid(v) == Range(v) \cap {NonLatin1Char, "\n", "\r"} = {}

\* headers.set(name, x): the value is converted to a string and stripped of
\* leading and trailing HTTP whitespace; an invalid value throws a TypeError
headersSet(h, name, x) ==
  LET v == trim(toJsString(x))
  IN IF h.ok /\ headerValueValid(v)
       THEN [ok |-> TRUE, map |-> [h.map EXCEPT ![name] = Str(v)]]
       ELSE [ok |-> FALSE, map |-> h.map]

HeaderNames ==
  {"host", "x-tenant-id", "x-tenant-slug", "x-tenant-domain",
   "x-tenant-timestamp", "x-middleware-start"}

----------------------------------------------------------------------------
(* Tenant Resolver: the synchronous part of resolveTenantByHostname *)

rootSuffix(e) == <<".">> \o ROOT_DOMAIN(e)

\* hostname.endsWith(`.${ROOT_DOMAIN}`)
isSubdomain(hostname, e) == endsWith(hostname, rootSuffix(e))

\* hostname.slice(0, -`.${ROOT_DOMAIN}`.length)
subdomainSlug(hostname, e) == sliceDropLast(hostname, Len(rootSuffix(e)))

\* faulty variant: a host whose lookup failed in the last request is not looked up again
slugRejectedOrFailedBefore(hostname, e) ==
  \/ /\ endsWith(hostname, <<".">> \o ROOT_DOMAIN(e))
     /\ ~isSlugValid(SubSeq(hostname, 1, Len(hostname) - Len(ROOT_DOMAIN(e)) - 1))
  \/ Str(hostname) = lastFailed

\* the else branch of `if (slug && isSlugValid(slug))`
slugRejected(hostname, e) ==
  /\ isSubdomain(hostname, e)
  /\ ~(subdomainSlug(hostname, e) # <<>> /\ isSlugValid(subdomainSlug(hostname, e)))

INTERNAL_SECRET_HEADER == "x-internal-secret"
INTERNAL_CALL_HEADER == "x-internal-call"
TENANT_RESOLVER == <<"t", "e", "n", "a", "n", "t", "-", "r", "e", "s", "o", "l", "v", "e", "r">>
RESOLVE_PATH == <<"/", "a", "p", "i", "/", "i", "n", "t", "e", "r", "n", "a", "l", "/",
                  "t", "e", "n", "a", "n", "t", "/", "r", "e", "s", "o", "l", "v", "e">>

\* faulty variant: the fallback marker is sent along with the secret
lookupRequestWithMarker(hostname, e) ==
  [ base |-> BASE_URL(e),
    path |-> RESOLVE_PATH,
    slug |-> IF isSubdomain(hostname, e)
               THEN Str(subdomainSlug(hostname, e)) ELSE Undefined,
    hostname |-> Str(hostname),
    headers |-> IF Truthy(INTERNAL_API_SECRET(e))
                  THEN {<<INTERNAL_SECRET_HEADER, INTERNAL_API_SECRET(e).v>>,
                        <<INTERNAL_CALL_HEADER, TENANT_RESOLVER>>}
                  ELSE {<<INTERNAL_CALL_HEADER, TENANT_RESOLVER>>} ]

\* the request handed to fetch: URL, query parameters and headers
lookupRequest(hostname, e) ==
  [ base |-> BASE_URL(e),
    path |-> RESOLVE_PATH,
    slug |-> IF isSubdomain(hostname, e)
               THEN Str(subdomainSlug(hostname, e)) ELSE Undefined,
    hostname |-> Str(hostname),
    headers |-> IF Truthy(INTERNAL_API_SECRET(e))
                  THEN {<<INTERNAL_SECRET_HEADER, INTERNAL_API_SECRET(e).v>>}
                  ELSE {<<INTERNAL_CALL_HEADER, TENANT_RESOLVER>>} ]

NoCall == [base |-> <<>>, path |-> <<>>, slug |-> Undefined,
           hostname |-> Undefined, headers |-> {}]

\* log entries: console.warn / console.error with the message's fixed part
Warn(msg) == [level |-> "warn", msg |-> msg]
Error(msg) == [level |-> "error", msg |-> msg]

----------------------------------------------------------------------------
(* Request Rewriter: middleware after the resolver has returned *)

SlowThreshold == 100
API_PREFIX == <<"/", "a", "p", "i">>
HEALTHZ_PREFIX == <<"/", "h", "e", "a", "l", "t", "h", "z">>
SCOPE_PREFIX == <<"/", "s", "/">>

BadRequest == [kind |-> "response", status |-> 400, body |-> "Bad Request"]
\* faulty variant: the 404 names what was not found
NotFoundNamingTenant ==
  [kind |-> "response", status |-> 404, body |-> "Tenant not found"]
NotFound == [kind |-> "response", status |-> 404, body |-> "Not Found"]
Threw(name) == [kind |-> "threw", error |-> name]
Pending == [kind |-> "pending"]

\* faulty variant: the root-domain pass-through forwards a start-time header
NextPlainStamped(rq) ==
  [kind |-> "next", override |-> TRUE, pathname |-> rq.pathname,
   search |-> rq.search,
   headers |-> [rq.headers EXCEPT !["x-middleware-start"] = Str(<<"0">>)]]

\* NextResponse.next(): the request goes on as it came in
NextPlain(rq) ==
  [kind |-> "next", override |-> FALSE, pathname |-> rq.pathname,
   search |-> rq.search, headers |-> rq.headers]

\* NextResponse.next({ request: { headers } })
NextWith(rq, h) ==
  [kind |-> "next", override |-> TRUE, pathname |-> rq.pathname,
   search |-> rq.search, headers |-> h]

\* NextResponse.rewrite(url, { request: { headers } })
Rewrite(pathname, search, h) ==
  [kind |-> "rewrite", override |-> TRUE, pathname |-> pathname,
   search |-> search, headers |-> h]

\* `/s/${tenant.slug}`
tenantPrefix(tn) == SCOPE_PREFIX \o toJsString(field(tn, "slug"))

\* the test that lets a request through without a rewrite
alreadyScoped(pathname, tn) ==
  \/ startsWith(pathname, tenantPrefix(tn))
  \/ startsWith(pathname, API_PREFIX)
  \/ startsWith(pathname, HEALTHZ_PREFIX)

\* faulty variant: the request host is used even when the tenant has a custom domain
tenantDomainFromHost(tn, host) == Str(host)

\* tenant.customDomain ?? originalHost
tenantDomain(tn, host) ==
  IF IsNullish(field(tn, "customDomain")) THEN Str(host) ELSE field(tn, "customDomain")

\* the five requestHeaders.set calls, in the source's order
tenantHeaders(rq, tn, host, start, t) ==
  headersSet(
    headersSet(
      headersSet(
        headersSet(
          headersSet([ok |-> TRUE, map |-> rq.headers], "x-tenant-id", field(tn, "id")),
          "x-tenant-slug", field(tn, "slug")),
        "x-tenant-domain", tenantDomain(tn, host)),
      "x-tenant-timestamp", Str(toString(t))),
    "x-middleware-start", Str(toString(start)))

\* middleware from `if (!tenant)` to its end: the outcome and the log entries,
\* for the value tn returned by the resolver at time t
route(rq, tn, host, start, t) ==
  IF ~Truthy(tn) THEN [result |-> NotFound, logs |-> <<>>]
  ELSE
    LET h == tenantHeaders(rq, tn, host, start, t)
    IN IF ~h.ok THEN [result |-> Threw("TypeError"), logs |-> <<>>]
       ELSE IF alreadyScoped(rq.pathname, tn)
         THEN [result |-> NextWith(rq, h.map), logs |-> <<>>]
       ELSE [result |-> Rewrite(tenantPrefix(tn) \o rq.pathname, rq.search, h.map),
             logs |-> IF t - start > SlowThreshold
                        THEN <<Warn("Slow middleware execution")>> ELSE <<>>]

----------------------------------------------------------------------------
(* Inputs: environments, requests, and what the lookup endpoint can answer *)

APP_URL == <<"h", "t", "t", "p", "s", ":", "/", "/", "a", "p", "p", ".", "i", "o">>
SECRET == <<"s", "3", "c", "r", "e", "t">>
ACME == <<"a", "c", "m", "e">>
BILLING == <<"b", "i", "l", "l", "i", "n", "g", ".", "e", "x", "a", "m", "p", "l", "e", ".", "c", "o", "m">>

EnvDefault ==
  [PORT |-> Undefined, NEXT_PUBLIC_BASE_URL |-> Undefined,
   INTERNAL_API_SECRET |-> Undefined, FETCH_TIMEOUT |-> Undefined]
EnvConfigured ==
  [PORT |-> Undefined, NEXT_PUBLIC_BASE_URL |-> Str(APP_URL),
   INTERNAL_API_SECRET |-> Str(SECRET), FETCH_TIMEOUT |-> Str(<<"2", "0", "0">>)]
Envs == {EnvDefault, EnvConfigured}

LongLength == 254
LongHost == [i \in 1..LongLength |-> "a"]

DASHBOARD == <<"/", "d", "a", "s", "h", "b", "o", "a", "r", "d">>
QUERY == <<"?", "a", "=", "1">>

\* tenant headers a client may send along: none, or forged ones
NoClientHeaders == [n \in HeaderNames \ {"host"} |-> Null]
ForgedClientHeaders ==
  [n \in HeaderNames \ {"host"} |->
     IF n \in {"x-tenant-id", "x-tenant-slug"} THEN Str(<<"e", "v", "i", "l">>) ELSE Null]
ClientHeaders == {NoClientHeaders, ForgedClientHeaders}

\* an inbound request: Host header (absent, or a string), pathname, search
\* and the tenant headers the client sent
Request(hostHeader, pathname, search, client) ==
  [headers |-> [n \in HeaderNames |-> IF n = "host" THEN hostHeader ELSE client[n]],
   pathname |-> pathname, search |-> search]

\* Host headers the validator rejects
RejectedHosts ==
  { Null, Str(<<>>), Str(<<".">>), Str(LongHost),
    Str(<<"a", ".", ".", "b">>), Str(<<"<", "x", ">">>), Str(<<"a", " ", "b">>) }

\* Host headers of the root domain
RootHosts(e) ==
  { Str(ROOT_DOMAIN(e)), Str(<<"W", "W", "W", ".">> \o ROOT_DOMAIN(e) \o <<":", "8", "0", "8", "0">>) }

\* subdomains of the root domain whose prefix is no valid slug
BadSlugHosts(e) ==
  { Str(x \o rootSuffix(e)) :
      x \in {<<"a", "b">>, <<"a", "p", "i">>, <<>>, <<"a", ".", "b">>, <<"a", "-", "-", "b">>} }

\* the subdomain of the tenant acme
AcmeHost(e) == Str(ACME \o rootSuffix(e))

\* other hosts that are looked up: spellings of the acme subdomain, custom domains
OtherHosts(e) ==
  { Str(<<"A", "c", "m", "e">> \o rootSuffix(e) \o <<".">>),
    Str(<<"w", "w", "w", ".", "a", "c", "m", "e">> \o rootSuffix(e)),
    Str(BILLING), Str(<<"e", "v", "i", "l", ".", "c", "o">>) }

\* request targets: pathname and search
Targets ==
  { <<DASHBOARD, <<>>>>,
    <<DASHBOARD, QUERY>>,
    <<<<"/">>, <<>>>>,
    <<<<"/", "s", "/", "a", "c", "m", "e">>, <<>>>>,
    <<<<"/", "s", "/", "a", "c", "m", "e", "/", "x">>, QUERY>>,
    <<<<"/", "s", "/", "a", "c", "m", "e", "2", "/", "x">>, <<>>>>,
    <<<<"/", "a", "p", "i", "/", "a", "n", "y", "t", "h", "i", "n", "g">>, QUERY>>,
    <<HEALTHZ_PREFIX, <<>>>> }

Requests(e) ==
  {Request(h, DASHBOARD, <<>>, NoClientHeaders) : h \in RejectedHosts \cup BadSlugHosts(e)}
    \cup {Request(h, DASHBOARD, q, c) :
            h \in RootHosts(e), q \in {<<>>, QUERY}, c \in ClientHeaders}
    \cup {Request(AcmeHost(e), t[1], t[2], NoClientHeaders) : t \in Targets}
    \cup {Request(AcmeHost(e), DASHBOARD, QUERY, ForgedClientHeaders)}
    \cup {Request(h, DASHBOARD, QUERY, NoClientHeaders) : h \in OtherHosts(e)}

\* HTTP statuses of the lookup response
Statuses == {200, 400, 401, 404, 500}
ok(status) == status >= 200 /\ status <= 299

ORG_1 == <<"o", "r", "g", "_", "1">>
Obj(id, slug, customDomain) ==
  [t |-> "obj", id |-> id, slug |-> slug, customDomain |-> customDomain]

\* parsed bodies of an OK response
Payloads ==
  { Obj(Str(ORG_1), Str(ACME), Null),
    Obj(Str(<<"o", "r", "g", "_", "2">>), Str(ACME), Str(BILLING)),
    Obj(Str(ORG_1), Str(<<"a", "b">>), Null),
    Obj(Str(ORG_1), Str(<<"a", "p", "i">>), Null),
    Obj(Str(ORG_1), Str(<<>>), Null),
    Obj(Str(ORG_1), Num(123), Null),
    Obj(Undefined, Undefined, Undefined),
    Obj(Str(<<"o", NonLatin1Char>>), Str(ACME), Null),
    Obj(Str(ORG_1), Str(ACME), Str(<<NonLatin1Char, ".", "j", "p">>)),
    Null, Num(0), Num(7) }

\* what a rejected fetch or body read can carry: an Error of some name, or a
\* thrown value that is no Error (`catch (error)` receives any value)
NON_ERROR == "non-Error value"
NO_ERROR == "none"
RejectionNames == {"TypeError", "SyntaxError", NON_ERROR}

SlowStep == 150
MaxRequests == 2

\* the instants, in ms, at which the clock is read
Instants(e) == {SlowStep, timerDelay(FETCH_TIMEOUT(e))}

----------------------------------------------------------------------------
(* The internal resolve endpoint: GET /api/internal/tenant/resolve *)

\* a row of the organization table, as the endpoint selects it
Org(id, slug, customDomain) == [id |-> id, slug |-> slug, customDomain |-> customDomain]

\* a request to the endpoint: the two headers it reads and the two query
\* parameters; headers.get and searchParams.get give null for what is absent
EndpointRequest(method, internalSecret, internalCall, slug, hostname) ==
  [method |-> method, internalSecret |-> internalSecret,
   internalCall |-> internalCall, slug |-> slug, hostname |-> hostname]

\* NextResponse.json(body, { status })
JsonResponse(status, body) == [status |-> status, body |-> body]
ErrorBody(msg) == [t |-> "obj", error |-> msg]

\* faulty variant: the fallback marker authorizes even when a secret is configured
authorizedBySecretOrMarker(e, rq) ==
  \/ Truthy(e.INTERNAL_API_SECRET) /\ rq.internalSecret = e.INTERNAL_API_SECRET
  \/ rq.internalCall = Str(TENANT_RESOLVER)

\* the access check at the head of GET: the negation of its two 401 branches
authorized(e, rq) ==
  IF Truthy(e.INTERNAL_API_SECRET)
    THEN rq.internalSecret = e.INTERNAL_API_SECRET
    ELSE rq.internalCall = Str(TENANT_RESOLVER)

\* faulty variant: the two conditions are joined by AND
matchesBoth(org, rq) ==
  /\ Truthy(rq.slug) => org.slug = rq.slug
  /\ Truthy(rq.hostname) => org.customDomain = rq.hostname

\* or(...conditions): eq(organization.slug, slug) when slug is given,
\* eq(organization.customDomain, hostname) when hostname is given
matches(org, rq) ==
  \/ Truthy(rq.slug) /\ org.slug = rq.slug
  \/ Truthy(rq.hostname) /\ org.customDomain = rq.hostname

\* the rows the query can return as rows[0]: .limit(1) without an order
selectable(rows, rq) == {org \in rows : matches(org, rq)}

EndpointIdle ==
  [pc |-> "idle", request |-> EndpointRequest("", Null, Null, Null, Null),
   response |-> JsonResponse(0, Undefined), queries |-> 0, rejected |-> FALSE,
   logs |-> <<>>]

----------------------------------------------------------------------------
(* Initial state *)

NoRequest ==
  [headers |-> [n \in HeaderNames |-> Null], pathname |-> <<>>, search |-> <<>>]
NoReply == [settled |-> "none", status |-> 0, body |-> Undefined, error |-> NO_ERROR]
NoTimer == [armed |-> FALSE, deadline |-> 0]
NotReturned == [t |-> "pending"]
\* the locals of one invocation of middleware
IdleInvocation ==
  [pc |-> "idle", req |-> NoRequest, startTime |-> 0, originalHost |-> Null,
   call |-> NoCall, timer |-> NoTimer, reply |-> NoReply, tenant |-> NotReturned,
   result |-> Pending, returnedAt |-> 0]
NoInvocations == <<>>
NoProbe == [fn |-> "none", arg |-> Undefined, ret |-> Undefined, done |-> FALSE]

Init ==
  /\ env \in Envs
  /\ now = 0
  /\ pc = "idle"
  /\ req = NoRequest
  /\ startTime = 0
  /\ originalHost = Null
  /\ call = NoCall
  /\ aborted = FALSE
  /\ timer = NoTimer
  /\ lookups = 0
  /\ reply = NoReply
  /\ tenant = NotReturned
  /\ result = Pending
  /\ logs = <<>>
  /\ served = 0
  /\ lastFailed = Null
  /\ failures = 0
  /\ probe = NoProbe
  /\ store = {}
  /\ endpoint = EndpointIdle
  /\ inv = NoInvocations
  /\ lastReturned = Null

----------------------------------------------------------------------------
(* Operations *)

\* the console.warn of normalizeAndValidateHost for a rejected header
validatorLogs(hostHeader) ==
  IF ~Truthy(hostHeader) THEN <<>>
  ELSE
    LET raw == trim(toLowerCase(hostHeader.v))
    IN IF ~hostRegex(raw) \/ Len(raw) > MaxHostLength
         THEN <<Warn("Invalid host header rejected")>>
       ELSE IF suspicious(raw) THEN <<Warn("Suspicious host header rejected")>>
       ELSE <<>>

\* the current request's resolution failed: the resolver returned a falsy value
resolutionFailed == tenant # NotReturned /\ ~Truthy(tenant)

\* the current request issued a lookup call and its resolution failed
lookupFailed == lookups > 0 /\ resolutionFailed

\* faulty variant: the timer is left armed when the resolver returns
clearTimeoutOmitted(tm) == tm

\* finally { clearTimeout(timeoutId) }: the timer is cancelled
clearTimeout(tm) == NoTimer

\* resolveTenantByHostname returns tn (its finally block clears the timer) and
\* middleware runs to its end
Return(tn, entries) ==
  LET r == route(req, tn, originalHost.v, startTime, now)
  IN /\ tenant' = tn
     /\ timer' = clearTimeout(timer)
     /\ result' = r.result
     /\ logs' = logs \o entries \o r.logs
     /\ pc' = "done"

\* middleware(req), up to its first await or to its return
MiddlewareEnter(rq) ==
  LET hostHeader == rq.headers["host"]
      host == normalizeAndValidateHost(hostHeader)
  IN /\ pc = "idle"
     /\ served < MaxRequests
     /\ served' = served + 1
     /\ req' = rq
     /\ startTime' = now
     /\ originalHost' = host
     /\ reply' = NoReply
     /\ aborted' = FALSE
     /\ UNCHANGED <<inv, lastReturned, store, endpoint, probe, env, now, lastFailed, failures>>
     /\ IF ~Truthy(host) THEN
          /\ result' = BadRequest
          /\ logs' = validatorLogs(hostHeader)
                       \o <<Error("Invalid or missing host header")>>
          /\ pc' = "done"
          /\ tenant' = NotReturned
          /\ lookups' = 0
          /\ call' = NoCall
          /\ timer' = NoTimer
        ELSE IF host.v = ROOT_DOMAIN(env) THEN
          /\ result' = NextPlain(rq)
          /\ logs' = <<>>
          /\ pc' = "done"
          /\ tenant' = NotReturned
          /\ lookups' = 0
          /\ call' = NoCall
          /\ timer' = NoTimer
        ELSE IF slugRejected(host.v, env) THEN
          /\ result' = route(rq, Null, host.v, now, now).result
          /\ logs' = <<Warn("Invalid tenant slug")>>
          /\ pc' = "done"
          /\ tenant' = Null
          /\ lookups' = 0
          /\ call' = NoCall
          /\ timer' = NoTimer
        ELSE
          /\ result' = Pending
          /\ logs' = <<>>
          /\ pc' = "fetch"
          /\ tenant' = NotReturned
          /\ lookups' = 1
          /\ call' = lookupRequest(host.v, env)
          /\ timer' = [armed |-> TRUE,
                       deadline |-> now + timerDelay(FETCH_TIMEOUT(env))]

\* faulty variant: a 404 is logged like every other failure status
statusLogsWithNotFound(status) == <<Error("Tenant resolution failed with status")>>

\* the else branch of `if (response.ok)`: a console.error unless the status is 404
statusLogs(status) ==
  IF status # 404 THEN <<Error("Tenant resolution failed with status")>> ELSE <<>>

\* the lookup endpoint answers with a status line and headers
FetchResolves(status) ==
  /\ pc = "fetch"
  /\ reply' = [settled |-> "response", status |-> status, body |-> Undefined,
               error |-> NO_ERROR]
  /\ IF ok(status)
       THEN /\ pc' = "json"
            /\ UNCHANGED <<tenant, timer, result, logs>>
       ELSE Return(Null, statusLogs(status))
  /\ UNCHANGED <<inv, lastReturned, store, endpoint, probe, env, now, req, startTime, originalHost, call, aborted, lookups,
                 served, lastFailed, failures>>

\* the catch block: a console.error for a thrown Error, nothing for any other
\* thrown value
catchLogs(name) ==
  IF name = NON_ERROR THEN <<>>
  ELSE IF name = "AbortError" THEN <<Error("Tenant resolution timeout")>>
  ELSE <<Error("Tenant resolution error")>>

\* fetch rejects: the network call failed
FetchRejects(name) ==
  /\ pc = "fetch"
  /\ reply' = [settled |-> "rejected", status |-> 0, body |-> Undefined,
               error |-> name]
  /\ Return(Null, catchLogs(name))
  /\ UNCHANGED <<inv, lastReturned, store, endpoint, probe, env, now, req, startTime, originalHost, call, aborted, lookups,
                 served, lastFailed, failures>>

\* lines 162-171: the value returned for a parsed body, and the log entries
validatePayload(tn) ==
  LET slug == field(tn, "slug")
  IN CASE tn.t = "null" ->
            \* reading tenant.slug of null throws a TypeError, caught below
            [value |-> Null, logs |-> catchLogs("TypeError")]
       [] tn.t # "null" /\ ~Truthy(slug) -> [value |-> tn, logs |-> <<>>]
       [] tn.t # "null" /\ Truthy(slug) /\ slug.t = "str" ->
            IF isSlugValid(slug.v) THEN [value |-> tn, logs |-> <<>>]
            ELSE [value |-> Null,
                  logs |-> <<Error("Invalid slug returned from API")>>]
       [] tn.t # "null" /\ Truthy(slug) /\ slug.t = "num" ->
            \* a number that passes the regular expression has no startsWith:
            \* a TypeError, caught below
            IF slugRegex(toString(slug.n))
              THEN [value |-> Null, logs |-> catchLogs("TypeError")]
              ELSE [value |-> Null,
                    logs |-> <<Error("Invalid slug returned from API")>>]

\* response.json() resolves with a parsed body
JsonResolves(body) ==
  /\ pc = "json"
  /\ reply' = [reply EXCEPT !.settled = "parsed", !.body = body]
  /\ Return(validatePayload(body).value, validatePayload(body).logs)
  /\ UNCHANGED <<inv, lastReturned, store, endpoint, probe, env, now, req, startTime, originalHost, call, aborted, lookups,
                 served, lastFailed, failures>>

\* response.json() rejects: the body cannot be read or parsed
JsonRejects(name) ==
  /\ pc = "json"
  /\ reply' = [reply EXCEPT !.settled = "unparsable", !.error = name]
  /\ Return(Null, catchLogs(name))
  /\ UNCHANGED <<inv, lastReturned, store, endpoint, probe, env, now, req, startTime, originalHost, call, aborted, lookups,
                 served, lastFailed, failures>>

\* faulty variant: the signal is not handed to fetch, so the abort reaches nothing
TimerFiresUnwired ==
  /\ timer.armed
  /\ now >= timer.deadline
  /\ aborted' = TRUE
  /\ timer' = NoTimer
  /\ UNCHANGED <<inv, lastReturned, store, endpoint, probe, env, now, pc, req, startTime, originalHost, call, lookups, reply,
                 tenant, result, logs, served, lastFailed, failures>>

\* the timer callback: controller.abort(); a pending fetch or body read rejects
\* with an AbortError
TimerFires ==
  /\ timer.armed
  /\ now >= timer.deadline
  /\ aborted' = TRUE
  /\ IF pc \in {"fetch", "json"}
       THEN /\ reply' = [reply EXCEPT !.settled = "aborted", !.error = "AbortError"]
            /\ Return(Null, catchLogs("AbortError"))
       ELSE /\ timer' = NoTimer
            /\ UNCHANGED <<reply, tenant, result, logs, pc>>
  /\ UNCHANGED <<inv, lastReturned, store, endpoint, probe, env, now, req, startTime, originalHost, call, lookups, served,
                 lastFailed, failures>>

\* time passes while the request is suspended
Tick(t) ==
  /\ pc \in {"fetch", "json"}
  /\ t > now
  /\ now' = t
  /\ UNCHANGED <<inv, lastReturned, store, endpoint, probe, env, pc, req, startTime, originalHost, call, aborted, timer,
                 lookups, reply, tenant, result, logs, served, lastFailed, failures>>

\* the response is handed over and the request's context is discarded; the
\* history variables record whether its resolution failed
Discard ==
  /\ pc = "done"
  /\ pc' = "idle"
  /\ req' = NoRequest
  /\ startTime' = 0
  /\ originalHost' = Null
  /\ call' = NoCall
  /\ aborted' = FALSE
  /\ lookups' = 0
  /\ reply' = NoReply
  /\ tenant' = NotReturned
  /\ result' = Pending
  /\ logs' = <<>>
  /\ lastFailed' = IF lookupFailed THEN originalHost ELSE Null
  /\ failures' = IF ~lookupFailed THEN 0
                 ELSE IF originalHost = lastFailed THEN failures + 1 ELSE 1
  /\ UNCHANGED <<inv, lastReturned, store, endpoint, probe, env, now, timer, served>>

Next ==
  \/ \E rq \in Requests(env) : MiddlewareEnter(rq)
  \/ \E status \in Statuses : FetchResolves(status)
  \/ \E name \in RejectionNames : FetchRejects(name)
  \/ \E body \in Payloads : JsonResolves(body)
  \/ \E name \in RejectionNames : JsonRejects(name)
  \/ TimerFires
  \/ \E t \in Instants(env) : Tick(t)
  \/ Discard

Spec == Init /\ [][Next]_vars

\* time reaches the deadline of the armed timer
TimeoutElapses ==
  /\ pc \in {"fetch", "json"}
  /\ timer.armed
  /\ now < timer.deadline
  /\ now' = timer.deadline
  /\ UNCHANGED <<inv, lastReturned, store, endpoint, probe, env, pc, req, startTime, originalHost, call, aborted, timer,
                 lookups, reply, tenant, result, logs, served, lastFailed, failures>>

FairNext == Next \/ TimeoutElapses

\* the host's clock advances and a due timer callback is run: setTimeout's
\* callback is called once its delay has passed
FairSpec ==
  Init /\ [][FairNext]_vars /\ WF_vars(TimeoutElapses) /\ WF_vars(TimerFires)

----------------------------------------------------------------------------
(* The validators as pure functions: one call of normalizeAndValidateHost or *)
(* of isSlugValid on an argument drawn from the sets below                  *)

\* Host header texts the validator accepts
AcceptedHostTexts ==
  { <<"x", ".", "i", "o">>,
    <<"X", ".", "I", "O">>,
    <<"x", ".", "i", "o", ":", "8", "0", "8", "0">>,
    <<"x", ".", "i", "o", ".">>,
    <<"X", ".", "i", "o", ".", ":", "4", "4", "3">>,
    <<"w", "w", "w", ".", "x", ".", "i", "o">>,
    <<"W", "W", "W", ".", "x", ".", "i", "o">>,
    <<"W", "W", "W", ".", "X", ".", "I", "O", ":", "8", "0">>,
    <<"w", "w", "w", ".", "w", "w", "w", ".", "x", ".", "i", "o">>,
    <<"W", "W", "W", ".", "w", "w", "w", ".", "x", ".", "i", "o">>,
    <<"w", "w", "w", "x", ".", "i", "o">>,
    <<"w", "w", "w", ".">>,
    <<"w", "w", "w">>,
    <<".">>,
    <<"-">>,
    <<"a", ".", ":", "8", "0">>,
    <<" ", "x", ".", "i", "o", " ">>,
    <<"x", ".", "i", "o", "\t">>,
    <<"l", "o", "c", "a", "l", "h", "o", "s", "t">>,
    <<"W", "W", "W", ".", "l", "o", "c", "a", "l", "h", "o", "s", "t", ":", "3", "0", "0", "0">>,
    <<"a", "c", "m", "e", ".", "l", "o", "c", "a", "l", "h", "o", "s", "t">> }

\* Host header texts that do not match the host pattern
MalformedHostTexts ==
  { <<"a", " ", "b">>,
    <<"a", "_", "b">>,
    <<"x", ".", "i", "o", ":">>,
    <<"x", ".", "i", "o", ":", "1", "2", "3", "4", "5", "6">>,
    <<"x", ".", "i", "o", ":", "8", "0", ":", "8", "0">>,
    <<"x", ".", "i", "o", ":", "8", "a">>,
    <<" ">>,
    <<NonLatin1Char, ".", "j", "p">>,
    <<"x", ".", "i", "o", "/", "p", "a", "t", "h">>,
    <<"@", "x", ".", "i", "o">> }

\* the patterns the validator calls suspicious, javascript: in three letter cases
SuspiciousTokens ==
  { <<".", ".">>, <<"<">>, <<">">>, <<"'">>, <<"\"">>, <<Backtick>>, <<"{">>, <<"}">>,
    JAVASCRIPT_COLON,
    <<"J", "a", "v", "a", "S", "c", "r", "i", "p", "t", ":">>,
    <<"J", "A", "V", "A", "S", "C", "R", "I", "P", "T", ":">> }

\* each pattern alone, inside a host, after a host, and before a port number
SuspiciousHostTexts ==
  UNION { { p, <<"a">> \o p \o <<"b">>, <<"x", ".", "i", "o">> \o p, p \o <<"8", "0">> } :
            p \in SuspiciousTokens }

\* a host of n letters
Letters(n) == [i \in 1..n |-> "a"]

\* hosts around the length limit, some of them padded with white space
LongHostTexts ==
  { LongHost,
    LongHost \o <<" ">>,
    Letters(MaxHostLength),
    Letters(MaxHostLength) \o <<" ">>,
    <<"\t">> \o Letters(MaxHostLength),
    Letters(MaxHostLength - 3),
    Letters(MaxHostLength - 4) }

HostArguments ==
  {Null} \cup
  {Str(h) : h \in {<<>>} \cup AcceptedHostTexts \cup MalformedHostTexts
                    \cup SuspiciousHostTexts \cup LongHostTexts}

\* slugs: of every shape the rule names, and around the length limits
SlugTexts ==
  { <<>>,
    <<"a", "b">>,
    <<"a", "b", "c">>,
    <<"a", "-", "b">>,
    <<"-", "a", "b">>,
    <<"a", "b", "-">>,
    <<"a", "-", "-", "b">>,
    <<"-", "-", "-">>,
    <<"A", "B", "C">>,
    <<"a", "B", "c">>,
    <<"a", "b", "_", "c">>,
    <<"a", ".", "b">>,
    <<"a", " ", "b">>,
    <<NonLatin1Char, "a", "b">>,
    <<"a", "p", "i">>,
    <<"_", "n", "e", "x", "t">>,
    <<"s", "t", "a", "t", "i", "c">>,
    <<"p", "u", "b", "l", "i", "c">>,
    <<"a", "d", "m", "i", "n">>,
    <<"h", "e", "a", "l", "t", "h", "z">>,
    <<".", "w", "e", "l", "l", "-", "k", "n", "o", "w", "n">>,
    <<"f", "a", "v", "i", "c", "o", "n", ".", "i", "c", "o">>,
    <<"r", "o", "b", "o", "t", "s", ".", "t", "x", "t">>,
    <<"s", "i", "t", "e", "m", "a", "p", ".", "x", "m", "l">>,
    <<"a", "p", "i", "s">>,
    <<"a", "p">>,
    <<"w", "w", "w">>,
    <<"a", "c", "m", "e">>,
    <<"1", "2", "3">>,
    <<"a", "1", "-", "b", "2">>,
    <<"m", "y", "-", "o", "r", "g", "-", "1">> }

SlugArguments ==
  {Str(x) : x \in SlugTexts \cup
                  { Letters(MaxSlugLength), Letters(MaxSlugLength + 1),
                    Letters(MaxSlugLength - 1) \o <<"-">>,
                    <<"-">> \o Letters(MaxSlugLength - 1) }}

programVars ==
  <<env, now, pc, req, startTime, originalHost, call, aborted, timer, lookups,
    reply, tenant, result, logs, served, lastFailed, failures>>

ValidationInit ==
  /\ env = EnvDefault
  /\ now = 0
  /\ pc = "idle"
  /\ req = NoRequest
  /\ startTime = 0
  /\ originalHost = Null
  /\ call = NoCall
  /\ aborted = FALSE
  /\ timer = NoTimer
  /\ lookups = 0
  /\ reply = NoReply
  /\ tenant = NotReturned
  /\ result = Pending
  /\ logs = <<>>
  /\ served = 0
  /\ lastFailed = Null
  /\ failures = 0
  /\ store = {}
  /\ endpoint = EndpointIdle
  /\ inv = NoInvocations
  /\ lastReturned = Null
  /\ probe \in
       {[fn |-> "normalizeAndValidateHost", arg |-> h, ret |-> Undefined, done |-> FALSE] :
          h \in HostArguments}
       \cup {[fn |-> "isSlugValid", arg |-> x, ret |-> Undefined, done |-> FALSE] :
               x \in SlugArguments}

\* normalizeAndValidateHost(arg)
ApplyNormalizeAndValidateHost ==
  /\ probe.fn = "normalizeAndValidateHost"
  /\ ~probe.done
  /\ probe' = [probe EXCEPT !.ret = normalizeAndValidateHost(probe.arg), !.done = TRUE]
  /\ UNCHANGED <<programVars, store, endpoint, inv, lastReturned>>

\* isSlugValid(arg)
ApplyIsSlugValid ==
  /\ probe.fn = "isSlugValid"
  /\ ~probe.done
  /\ probe' = [probe EXCEPT !.ret = Bool(isSlugValid(probe.arg.v)), !.done = TRUE]
  /\ UNCHANGED <<programVars, store, endpoint, inv, lastReturned>>

ValidationNext ==
  \/ ApplyNormalizeAndValidateHost
  \/ ApplyIsSlugValid

ValidationSpec == ValidationInit /\ [][ValidationNext]_vars

----------------------------------------------------------------------------
(* The resolve endpoint on its own: one request against a store *)

ACME_HOST == <<"a", "c", "m", "e", ".", "a", "p", "p", ".", "i", "o">>
ORG_ACME == Org(Str(ORG_1), Str(ACME), Null)
ORG_BILLING ==
  Org(Str(<<"o", "r", "g", "_", "2">>), Str(<<"b", "i", "l", "l", "i", "n", "g">>), Str(BILLING))
\* an organization whose custom domain is the acme subdomain of the root domain
ORG_SHOP == Org(Str(<<"o", "r", "g", "_", "3">>), Str(<<"s", "h", "o", "p">>), Str(ACME_HOST))

\* contents of the organization table: slug and customDomain are unique
Stores == { {}, {ORG_ACME}, {ORG_ACME, ORG_BILLING}, {ORG_ACME, ORG_BILLING, ORG_SHOP} }

SecretHeaders == {Null, Str(SECRET), Str(<<"w", "r", "o", "n", "g">>), Str(<<>>)}
CallHeaders == {Null, Str(TENANT_RESOLVER), Str(<<"o", "t", "h", "e", "r">>)}
SlugParams == {Null, Str(<<>>), Str(ACME), Str(<<"n", "o", "b", "o", "d", "y">>)}
HostnameParams ==
  {Null, Str(<<>>), Str(BILLING), Str(ACME_HOST), Str(<<"e", "v", "i", "l", ".", "c", "o">>)}

EndpointRequests(method) ==
  {EndpointRequest(method, s, c, slug, hostname) :
     s \in SecretHeaders, c \in CallHeaders, slug \in SlugParams,
     hostname \in HostnameParams}

EndpointInit ==
  /\ env \in Envs
  /\ now = 0
  /\ pc = "idle"
  /\ req = NoRequest
  /\ startTime = 0
  /\ originalHost = Null
  /\ call = NoCall
  /\ aborted = FALSE
  /\ timer = NoTimer
  /\ lookups = 0
  /\ reply = NoReply
  /\ tenant = NotReturned
  /\ result = Pending
  /\ logs = <<>>
  /\ served = 0
  /\ lastFailed = Null
  /\ failures = 0
  /\ probe = NoProbe
  /\ store \in Stores
  /\ endpoint = EndpointIdle
  /\ inv = NoInvocations
  /\ lastReturned = Null

\* GET(request), up to its await of the query or to its return
GET(rq) ==
  /\ endpoint.pc = "idle"
  /\ IF ~authorized(env, rq) THEN
       endpoint' = [endpoint EXCEPT !.pc = "done", !.request = rq,
                      !.response = JsonResponse(401, ErrorBody("Unauthorized"))]
     ELSE IF ~Truthy(rq.slug) /\ ~Truthy(rq.hostname) THEN
       endpoint' = [endpoint EXCEPT !.pc = "done", !.request = rq,
                      !.response = JsonResponse(400,
                                     ErrorBody("Missing slug or hostname parameter"))]
     ELSE
       endpoint' = [endpoint EXCEPT !.pc = "query", !.request = rq, !.queries = 1]
  /\ UNCHANGED <<programVars, probe, store, inv, lastReturned>>

\* HEAD(request): return GET(request)
HEAD(rq) == GET(rq)

\* the query resolves with its rows: rows[0] is one of the matching rows, or
\* undefined when there is none
QueryResolves ==
  /\ endpoint.pc = "query"
  /\ IF selectable(store, endpoint.request) = {}
       THEN endpoint' = [endpoint EXCEPT !.pc = "done",
                           !.response = JsonResponse(404, ErrorBody("Tenant not found"))]
       ELSE \E org \in selectable(store, endpoint.request) :
              endpoint' = [endpoint EXCEPT !.pc = "done",
                             !.response = JsonResponse(200,
                                            Obj(org.id, org.slug, org.customDomain))]
  /\ UNCHANGED <<programVars, probe, store, inv, lastReturned>>

\* the query rejects: the catch block logs and answers 500
QueryRejects ==
  /\ endpoint.pc = "query"
  /\ endpoint' = [endpoint EXCEPT !.pc = "done",
                    !.rejected = TRUE,
                    !.response = JsonResponse(500, ErrorBody("Internal server error")),
                    !.logs = <<Error("Tenant resolution error:")>>]
  /\ UNCHANGED <<programVars, probe, store, inv, lastReturned>>

EndpointNext ==
  \/ \E rq \in EndpointRequests("GET") : GET(rq)
  \/ \E rq \in EndpointRequests("HEAD") : HEAD(rq)
  \/ QueryResolves
  \/ QueryRejects

EndpointSpec == EndpointInit /\ [][EndpointNext]_vars

----------------------------------------------------------------------------
(* Concurrent invocations of middleware: every invocation has its own locals *)
(* (startTime, originalHost, the AbortController and its timer, tenant,      *)
(* requestHeaders); the module-level values are constants                    *)

MaxConcurrent == 2
Invocations == 1..MaxConcurrent

ConcurrentRequests(e) ==
  { Request(AcmeHost(e), DASHBOARD, QUERY, NoClientHeaders),
    Request(Str(BILLING), <<"/">>, <<>>, NoClientHeaders),
    Request(Str(<<"a", ".", ".", "b">>), DASHBOARD, <<>>, NoClientHeaders) }

ConcurrentStatuses == {200, 404}

ConcurrentPayloads ==
  { Obj(Str(ORG_1), Str(ACME), Null),
    Obj(Str(<<"o", "r", "g", "_", "2">>), Str(<<"b", "i", "l", "l", "i", "n", "g">>),
        Str(BILLING)) }

soloVars ==
  <<pc, req, startTime, originalHost, call, aborted, timer, lookups, reply,
    tenant, result, logs, served, lastFailed, failures>>

ConcurrentInit ==
  /\ env = EnvConfigured
  /\ now = 0
  /\ pc = "idle"
  /\ req = NoRequest
  /\ startTime = 0
  /\ originalHost = Null
  /\ call = NoCall
  /\ aborted = FALSE
  /\ timer = NoTimer
  /\ lookups = 0
  /\ reply = NoReply
  /\ tenant = NotReturned
  /\ result = Pending
  /\ logs = <<>>
  /\ served = 0
  /\ lastFailed = Null
  /\ failures = 0
  /\ probe = NoProbe
  /\ store = {}
  /\ endpoint = EndpointIdle
  /\ inv = [i \in Invocations |-> IdleInvocation]
  /\ lastReturned = Null

\* faulty variant: a module-level cache of the last resolved tenant answers for
\* every host
resolvedOrCached(own, cached) == IF Truthy(cached) THEN cached ELSE own

\* const tenant = await resolveTenantByHostname(originalHost): the value of the
\* invocation's own call; nothing another invocation left behind is read
resolved(own, cached) == own

\* invocation i: resolveTenantByHostname returns and middleware runs to its end
Returns(i, settled, own) ==
  LET got == resolved(own, lastReturned)
  IN /\ inv' = [inv EXCEPT ![i] =
                  [@ EXCEPT !.reply = settled,
                            !.tenant = got,
                            !.timer = NoTimer,
                            !.result = route(inv[i].req, got, inv[i].originalHost.v,
                                             inv[i].startTime, now).result,
                            !.returnedAt = now,
                            !.pc = "done"]]
     /\ lastReturned' = IF Truthy(own) THEN own ELSE lastReturned

\* invocation i: middleware(req), up to its first await or to its return
Enter(i, rq) ==
  LET host == normalizeAndValidateHost(rq.headers["host"])
      begun == [inv[i] EXCEPT !.req = rq, !.startTime = now, !.originalHost = host,
                              !.returnedAt = now]
  IN /\ inv[i].pc = "idle"
     /\ IF ~Truthy(host) THEN
          inv' = [inv EXCEPT ![i] = [begun EXCEPT !.result = BadRequest, !.pc = "done"]]
        ELSE IF host.v = ROOT_DOMAIN(env) THEN
          inv' = [inv EXCEPT ![i] = [begun EXCEPT !.result = NextPlain(rq), !.pc = "done"]]
        ELSE IF slugRejected(host.v, env) THEN
          inv' = [inv EXCEPT ![i] = [begun EXCEPT !.result = NotFound, !.tenant = Null,
                                                  !.pc = "done"]]
        ELSE
          inv' = [inv EXCEPT ![i] =
                    [begun EXCEPT !.pc = "fetch",
                                  !.call = lookupRequest(host.v, env),
                                  !.timer = [armed |-> TRUE,
                                             deadline |-> now + timerDelay(FETCH_TIMEOUT(env))]]]
     /\ UNCHANGED <<env, now, soloVars, probe, store, endpoint, lastReturned>>

\* invocation i: its lookup call is answered with a status line
Responds(i, status) ==
  /\ inv[i].pc = "fetch"
  /\ IF ok(status)
       THEN /\ inv' = [inv EXCEPT ![i] =
                         [@ EXCEPT !.pc = "json",
                                   !.reply = [settled |-> "response", status |-> status,
                                              body |-> Undefined, error |-> NO_ERROR]]]
            /\ UNCHANGED lastReturned
       ELSE Returns(i, [settled |-> "response", status |-> status, body |-> Undefined,
                        error |-> NO_ERROR], Null)
  /\ UNCHANGED <<env, now, soloVars, probe, store, endpoint>>

\* invocation i: the body of its lookup response is parsed
Parses(i, body) ==
  /\ inv[i].pc = "json"
  /\ Returns(i, [inv[i].reply EXCEPT !.settled = "parsed", !.body = body],
             validatePayload(body).value)
  /\ UNCHANGED <<env, now, soloVars, probe, store, endpoint>>

\* invocation i: its timer fires and aborts its own lookup call
Aborts(i) ==
  /\ inv[i].pc \in {"fetch", "json"}
  /\ inv[i].timer.armed
  /\ now >= inv[i].timer.deadline
  /\ Returns(i, [inv[i].reply EXCEPT !.settled = "aborted", !.error = "AbortError"], Null)
  /\ UNCHANGED <<env, now, soloVars, probe, store, endpoint>>

\* time passes while some invocation is suspended
Passes(t) ==
  /\ \E i \in Invocations : inv[i].pc \in {"fetch", "json"}
  /\ t > now
  /\ now' = t
  /\ UNCHANGED <<env, soloVars, probe, store, endpoint, inv, lastReturned>>

ConcurrentNext ==
  \/ \E i \in Invocations, rq \in ConcurrentRequests(env) : Enter(i, rq)
  \/ \E i \in Invocations, status \in ConcurrentStatuses : Responds(i, status)
  \/ \E i \in Invocations, body \in ConcurrentPayloads : Parses(i, body)
  \/ \E i \in Invocations : Aborts(i)
  \/ \E t \in Instants(env) : Passes(t)

ConcurrentSpec == ConcurrentInit /\ [][ConcurrentNext]_vars

----------------------------------------------------------------------------
(* Middleware and endpoint together: the lookup call of a request is answered *)
(* by GET from the organization table                                         *)

\* headers.get(name) on the headers of the lookup call
headerOf(c, name) ==
  IF \E h \in c.headers : h[1] = name
    THEN Str((CHOOSE h \in c.headers : h[1] = name)[2])
    ELSE Null

\* the lookup call as the endpoint receives it
requestOf(c) ==
  EndpointRequest("GET", headerOf(c, INTERNAL_SECRET_HEADER),
                  headerOf(c, INTERNAL_CALL_HEADER),
                  IF c.slug = Undefined THEN Null ELSE c.slug, c.hostname)

SHOP == <<"s", "h", "o", "p">>
NOBODY == <<"n", "o", "b", "o", "d", "y">>

SystemStores == Stores \cup { {ORG_BILLING, ORG_SHOP} }

SystemRequests(e) ==
  {Request(h, DASHBOARD, QUERY, NoClientHeaders) :
     h \in {AcmeHost(e), Str(SHOP \o rootSuffix(e)), Str(NOBODY \o rootSuffix(e))}
             \cup OtherHosts(e)}

SystemInit ==
  /\ env = EnvConfigured
  /\ now = 0
  /\ pc = "idle"
  /\ req = NoRequest
  /\ startTime = 0
  /\ originalHost = Null
  /\ call = NoCall
  /\ aborted = FALSE
  /\ timer = NoTimer
  /\ lookups = 0
  /\ reply = NoReply
  /\ tenant = NotReturned
  /\ result = Pending
  /\ logs = <<>>
  /\ served = 0
  /\ lastFailed = Null
  /\ failures = 0
  /\ probe = NoProbe
  /\ store \in SystemStores
  /\ endpoint = EndpointIdle
  /\ inv = NoInvocations
  /\ lastReturned = Null

\* the lookup call reaches the endpoint
EndpointReceives ==
  /\ pc = "fetch"
  /\ GET(requestOf(call))

\* the endpoint's response reaches the resolver
ResponseArrives ==
  /\ endpoint.pc = "done"
  /\ FetchResolves(endpoint.response.status)

\* the body of the endpoint's response is parsed
BodyArrives ==
  /\ endpoint.pc = "done"
  /\ JsonResolves(endpoint.response.body)

SystemNext ==
  \/ \E rq \in SystemRequests(env) : MiddlewareEnter(rq)
  \/ EndpointReceives
  \/ QueryResolves
  \/ QueryRejects
  \/ ResponseArrives
  \/ BodyArrives
  \/ TimerFires
  \/ \E t \in Instants(env) : Tick(t)

SystemSpec == SystemInit /\ [][SystemNext]_vars

----------------------------------------------------------------------------
(* The lookup call on its way back into the application: the matcher covers *)
(* /api/internal/tenant/resolve, so middleware runs for the lookup request  *)
(* before the endpoint does                                                 *)

HTTPS_PORT == <<"4", "4", "3">>
HTTP_PORT == <<"8", "0">>

\* new URL("/api/internal/tenant/resolve", BASE_URL).host, the Host header of
\* the lookup request: the authority in lower case, a default port left out
urlHost(base) ==
  LET authority == toLowerCase(splitFirst(stripScheme(base), "/"))
      name == splitFirst(authority, ":")
      port == IF ":" \in Range(authority) THEN afterFirst(authority, ":") ELSE <<>>
      defaultPort == IF startsWith(base, HTTPS_SCHEME) THEN HTTPS_PORT ELSE HTTP_PORT
  IN IF port = <<>> \/ port = defaultPort THEN name ELSE name \o <<":">> \o port

\* url.search after the searchParams.set calls
urlSearch(c) ==
  (IF c.slug = Undefined THEN <<"?">>
   ELSE <<"?", "s", "l", "u", "g", "=">> \o c.slug.v \o <<"&">>)
  \o <<"h", "o", "s", "t", "n", "a", "m", "e", "=">> \o c.hostname.v

\* the lookup call as the request middleware is handed
lookupAsRequest(c) == Request(Str(urlHost(c.base)), c.path, urlSearch(c), NoClientHeaders)

EnvWithBase(url) == [EnvConfigured EXCEPT !.NEXT_PUBLIC_BASE_URL = Str(url)]

BaseUrls ==
  { APP_URL,
    HTTPS_SCHEME \o <<"A", "p", "p", ".", "i", "o">>,
    APP_URL \o <<":", "8", "4", "4", "3">>,
    APP_URL \o <<":", "4", "4", "3">>,
    APP_URL \o <<"/">>,
    HTTPS_SCHEME \o WWW_DOT \o <<"a", "p", "p", ".", "i", "o">> }

LoopbackEnvs == {EnvDefault} \cup {EnvWithBase(url) : url \in BaseUrls}

LoopbackRequests(e) ==
  { Request(Str(urlHost(BASE_URL(e))), DASHBOARD, QUERY, NoClientHeaders),
    Request(AcmeHost(e), DASHBOARD, QUERY, NoClientHeaders),
    Request(Str(BILLING), <<"/">>, <<>>, NoClientHeaders) }

LoopbackInit ==
  /\ env \in LoopbackEnvs
  /\ now = 0
  /\ pc = "idle"
  /\ req = NoRequest
  /\ startTime = 0
  /\ originalHost = Null
  /\ call = NoCall
  /\ aborted = FALSE
  /\ timer = NoTimer
  /\ lookups = 0
  /\ reply = NoReply
  /\ tenant = NotReturned
  /\ result = Pending
  /\ logs = <<>>
  /\ served = 0
  /\ lastFailed = Null
  /\ failures = 0
  /\ probe = NoProbe
  /\ store = {}
  /\ endpoint = EndpointIdle
  /\ inv = [i \in Invocations |-> IdleInvocation]
  /\ lastReturned = Null

\* a request from outside reaches middleware
Inbound(rq) == Enter(1, rq)

\* the lookup call of invocation i - 1 reaches middleware as invocation i
LookupArrives(i) ==
  /\ i > 1
  /\ inv[i - 1].pc = "fetch"
  /\ Enter(i, lookupAsRequest(inv[i - 1].call))

\* the status lines the lookup call can be answered with once middleware has
\* decided about the lookup request: its own 400 or 404, or the endpoint's answer
answers(decided) ==
  IF decided.kind = "response" THEN {decided.status}
  ELSE IF decided.kind = "threw" THEN {500}
  ELSE ConcurrentStatuses

\* the lookup call of invocation i is answered
LookupAnswered(i, status) ==
  /\ i + 1 \in Invocations
  /\ inv[i + 1].pc = "done"
  /\ status \in answers(inv[i + 1].result)
  /\ Responds(i, status)

LoopbackNext ==
  \/ \E rq \in LoopbackRequests(env) : Inbound(rq)
  \/ \E i \in Invocations : LookupArrives(i)
  \/ \E i \in Invocations, status \in {400, 500} \cup ConcurrentStatuses : LookupAnswered(i, status)
  \/ \E i \in Invocations, body \in ConcurrentPayloads : Parses(i, body)
  \/ \E i \in Invocations : Aborts(i)
  \/ \E t \in Instants(env) : Passes(t)

LoopbackSpec == LoopbackInit /\ [][LoopbackNext]_vars

----------------------------------------------------------------------------
(* The tRPC procedure domain.getOrganizationByDomain *)

NO_ORG_FOUND == <<"N", "O", "_", "O", "R", "G", "_", "F", "O", "U", "N", "D">>
ECONNREFUSED == <<"E", "C", "O", "N", "N", "R", "E", "F", "U", "S", "E", "D">>

\* a thrown Error with its cause, or a thrown value that is no Error
Thrown(isError, cause) == [t |-> "thrown", isError |-> isError, cause |-> cause]
NothingThrown == [t |-> "none"]

TRPCError(code) == [t |-> "TRPCError", code |-> code]

\* the scheme of a URL text: what stands before the first colon
urlScheme(s) == IF ":" \in Range(s) THEN splitFirst(s, ":") ELSE <<>>

RECURSIVE dropSlashes(_)
dropSlashes(s) == IF s # <<>> /\ Head(s) = "/" THEN dropSlashes(Tail(s)) ELSE s

\* z.url(): the text parses as an absolute URL (new URL(text) does not throw):
\* it begins with a scheme, and after http: or https: a host follows
isUrl(s) ==
  LET scheme == urlScheme(s)
  IN /\ scheme # <<>>
     /\ scheme[1] \in Lower \cup Upper
     /\ AllIn(scheme, Lower \cup Upper \cup Digit \cup {"+", "-", "."})
     /\ (toLowerCase(scheme) \in {<<"h", "t", "t", "p">>, <<"h", "t", "t", "p", "s">>}
           => dropSlashes(afterFirst(s, ":")) # <<>>)

\* assertCustomDomain(org): what it throws
assertCustomDomain(org) ==
  IF org = Undefined \/ org.customDomain = Null
    THEN Thrown(TRUE, Str(NO_ORG_FOUND))
    ELSE NothingThrown

\* the catch block of the query: the TRPCError thrown for a caught value
caught(error) ==
  IF error.isError /\ error.cause = Str(NO_ORG_FOUND)
    THEN TRPCError("NOT_FOUND")
    ELSE TRPCError("INTERNAL_SERVER_ERROR")

PORTAL_HOST == <<"p", "o", "r", "t", "a", "l", ".", "e", "x", "a", "m", "p", "l", "e", ".", "c", "o", "m">>
NOBODY_HOST == <<"n", "o", "b", "o", "d", "y", ".", "e", "x", "a", "m", "p", "l", "e", ".", "o", "r", "g">>

\* an organization whose custom domain was entered as a URL
ORG_PORTAL ==
  Org(Str(<<"o", "r", "g", "_", "4">>), Str(<<"p", "o", "r", "t", "a", "l">>),
      Str(HTTPS_SCHEME \o PORTAL_HOST))

DomainStores ==
  Stores \cup { {ORG_ACME, ORG_PORTAL}, {ORG_ACME, ORG_BILLING, ORG_PORTAL} }

DomainInputs ==
  { BILLING, HTTPS_SCHEME \o BILLING, PORTAL_HOST, HTTPS_SCHEME \o PORTAL_HOST,
    ACME_HOST, HTTPS_SCHEME \o ACME_HOST, NOBODY_HOST, HTTPS_SCHEME \o NOBODY_HOST }

\* what the store query can reject with: a driver Error without or with a
\* cause of its own, or a value that is no Error
StoreErrors ==
  { Thrown(TRUE, Undefined), Thrown(TRUE, Str(ECONNREFUSED)), Thrown(FALSE, Undefined) }

NoQuery == [fn |-> "none", arg |-> Undefined, ret |-> Undefined, done |-> FALSE,
            query |-> "none", error |-> NothingThrown]

DomainInit ==
  /\ env = EnvConfigured
  /\ now = 0
  /\ pc = "idle"
  /\ req = NoRequest
  /\ startTime = 0
  /\ originalHost = Null
  /\ call = NoCall
  /\ aborted = FALSE
  /\ timer = NoTimer
  /\ lookups = 0
  /\ reply = NoReply
  /\ tenant = NotReturned
  /\ result = Pending
  /\ logs = <<>>
  /\ served = 0
  /\ lastFailed = Null
  /\ failures = 0
  /\ store \in DomainStores
  /\ endpoint = EndpointIdle
  /\ inv = NoInvocations
  /\ lastReturned = Null
  /\ probe = NoQuery

\* the procedure is called with { domain }: the input is validated; a valid
\* input starts the query on the organization table
getOrganizationByDomain(domain) ==
  /\ probe.fn = "none"
  /\ probe' = IF isUrl(domain)
                THEN [fn |-> "getOrganizationByDomain", arg |-> Str(domain),
                      ret |-> Undefined, done |-> FALSE, query |-> "pending",
                      error |-> NothingThrown]
                ELSE [fn |-> "getOrganizationByDomain", arg |-> Str(domain),
                      ret |-> TRPCError("BAD_REQUEST"), done |-> TRUE, query |-> "none",
                      error |-> NothingThrown]
  /\ UNCHANGED <<programVars, store, endpoint, inv, lastReturned>>

\* findFirst resolves with the row whose customDomain is the input, or with
\* undefined; the row is asserted and returned
FindFirstResolves ==
  /\ probe.query = "pending"
  /\ LET rows == {o \in store : o.customDomain = probe.arg}
     IN \E currentOrg \in (IF rows = {} THEN {Undefined} ELSE rows) :
          LET thrown == assertCustomDomain(currentOrg)
          IN probe' = [probe EXCEPT
                         !.ret = IF thrown = NothingThrown THEN currentOrg
                                 ELSE caught(thrown),
                         !.done = TRUE,
                         !.query = "resolved",
                         !.error = thrown]
  /\ UNCHANGED <<programVars, store, endpoint, inv, lastReturned>>

\* findFirst rejects: the store cannot be queried
FindFirstRejects(error) ==
  /\ probe.query = "pending"
  /\ probe' = [probe EXCEPT !.ret = caught(error), !.done = TRUE, !.query = "rejected",
                             !.error = error]
  /\ UNCHANGED <<programVars, store, endpoint, inv, lastReturned>>

DomainNext ==
  \/ \E domain \in DomainInputs : getOrganizationByDomain(domain)
  \/ FindFirstResolves
  \/ \E error \in StoreErrors : FindFirstRejects(error)

DomainSpec == DomainInit /\ [][DomainNext]_vars

----------------------------------------------------------------------------
(* Properties *)

\* the resolver returned a tenant to middleware
Resolved == tenant # NotReturned /\ Truthy(tenant)

\* the request is forwarded with the headers middleware built
ForwardedWithHeaders == result.kind \in {"next", "rewrite"} /\ result.override

\* C1: every request ends in a pass-through, a pass-through with tenant
\* headers, a rewrite, a 400 response or a 404 response; middleware never throws.
C1_DefiniteOutcome ==
  pc = "done" =>
    \/ result.kind \in {"next", "rewrite"}
    \/ result.kind = "response" /\ result.status \in {400, 404}

\* C2: a resolved request whose path does not begin with /s/<slug>, /api or
\* /healthz is rewritten to /s/<slug><path>, with the query string unchanged and
\* the tenant headers injected.
C2_RewritesUnscopedPath ==
  LET slug == toJsString(field(tenant, "slug"))
  IN (/\ pc = "done"
      /\ Resolved
      /\ ~startsWith(req.pathname, SCOPE_PREFIX \o slug)
      /\ ~startsWith(req.pathname, API_PREFIX)
      /\ ~startsWith(req.pathname, HEALTHZ_PREFIX))
     => /\ result.kind = "rewrite"
        /\ result.pathname = SCOPE_PREFIX \o slug \o req.pathname
        /\ result.search = req.search
        /\ result.headers["x-tenant-slug"] = Str(slug)

\* C3: a resolved request whose path begins with /s/<slug>, /api or /healthz is
\* forwarded with path and query string unchanged and the tenant headers injected.
C3_PassesScopedPath ==
  LET slug == toJsString(field(tenant, "slug"))
  IN (/\ pc = "done"
      /\ Resolved
      /\ \/ startsWith(req.pathname, SCOPE_PREFIX \o slug)
         \/ startsWith(req.pathname, API_PREFIX)
         \/ startsWith(req.pathname, HEALTHZ_PREFIX))
     => /\ result.kind = "next"
        /\ result.override
        /\ result.pathname = req.pathname
        /\ result.search = req.search
        /\ result.headers["x-tenant-slug"] = Str(slug)

\* C4: a request whose normalized host is the root domain passes through
\* unmodified: no lookup call, no rewrite, no header added or changed.
C4_RootPassesThrough ==
  (pc # "idle" /\ req.headers["host"] \in RootHosts(env)) =>
    /\ pc = "done"
    /\ result.kind = "next"
    /\ ~result.override
    /\ result.pathname = req.pathname
    /\ result.search = req.search
    /\ result.headers = req.headers
    /\ lookups = 0
    /\ call = NoCall
    /\ tenant = NotReturned

C4_Witness ==
  /\ pc = "done"
  /\ req.headers["host"] \in RootHosts(env)
  /\ req.headers["host"].v # ROOT_DOMAIN(env)
  /\ req.headers["x-tenant-id"] # Null
  /\ result.kind = "next"

\* C5: whenever the resolver returns null the response is 404 "Not Found",
\* the same for every cause of the failure.
C5_GenericNotFound ==
  (pc = "done" /\ tenant = Null) =>
    result = [kind |-> "response", status |-> 404, body |-> "Not Found"]

C5_Witness ==
  /\ pc = "done"
  /\ tenant = Null
  /\ reply.settled = "aborted"
  /\ result.status = 404

\* C6: a request whose Host header the validator rejects ends at once with 400
\* "Bad Request", and a lookup call is only ever issued for the validated host.
C6_ValidateFirst ==
  /\ (pc # "idle" /\ req.headers["host"] \in RejectedHosts) =>
       /\ pc = "done"
       /\ result = [kind |-> "response", status |-> 400, body |-> "Bad Request"]
       /\ lookups = 0
       /\ call = NoCall
       /\ tenant = NotReturned
  /\ lookups > 0 =>
       /\ Truthy(originalHost)
       /\ call.hostname = originalHost
       /\ AllIn(originalHost.v, Lower \cup Digit \cup {".", "-"})
       /\ ~includes(originalHost.v, <<".", ".">>)

C6_Witness ==
  /\ pc = "done"
  /\ req.headers["host"] = Str(<<"a", ".", ".", "b">>)
  /\ result.status = 400

\* C7: a request forwarded for a resolved tenant T carries x-tenant-id = T.id,
\* x-tenant-slug = T.slug, x-tenant-domain = T.customDomain when that is set and
\* the normalized request host otherwise, x-tenant-timestamp and
\* x-middleware-start.
C7_TenantHeaders ==
  (pc = "done" /\ ForwardedWithHeaders) =>
    /\ Resolved
    /\ field(tenant, "id").t = "str" => result.headers["x-tenant-id"] = field(tenant, "id")
    /\ field(tenant, "slug").t = "str" =>
         result.headers["x-tenant-slug"] = field(tenant, "slug")
    /\ result.headers["x-tenant-domain"] =
         IF field(tenant, "customDomain").t = "str"
           THEN field(tenant, "customDomain") ELSE originalHost
    /\ result.headers["x-tenant-timestamp"] = Str(toString(now))
    /\ result.headers["x-middleware-start"] = Str(toString(startTime))
    /\ result.headers["host"] = req.headers["host"]

C7_Witness ==
  /\ pc = "done"
  /\ result.kind = "rewrite"
  /\ field(tenant, "customDomain") = Str(BILLING)
  /\ originalHost = Str(BILLING)
  /\ result.headers["x-tenant-domain"] = Str(BILLING)
  /\ now > startTime

\* C8: for a host <prefix>.<root-domain> whose prefix fails the slug rule the
\* resolver returns null without any lookup call, and the request is answered 404.
C8_BadSlugNoLookup ==
  (pc # "idle" /\ originalHost \in BadSlugHosts(env)) =>
    /\ pc = "done"
    /\ lookups = 0
    /\ call = NoCall
    /\ tenant = Null
    /\ result.kind = "response"
    /\ result.status = 404

C8_Witness ==
  /\ pc = "done"
  /\ originalHost = Str(<<"a", "b">> \o rootSuffix(env))
  /\ lookups = 0
  /\ result.status = 404

\* C9: a lookup call in flight is bounded by a timer set to the configured
\* timeout; when the timer fires before the call (body included) has completed,
\* the call is aborted, the resolver returns null and the answer is the generic 404.
C9_TimeoutAborts ==
  /\ [](pc \in {"fetch", "json"} =>
          /\ timer.armed
          /\ timer.deadline = startTime +
               (IF IsNullish(env.FETCH_TIMEOUT) THEN 5000
                ELSE decimalValue(env.FETCH_TIMEOUT.v))
          /\ now >= timer.deadline => ENABLED TimerFires)
  /\ [][(pc \in {"fetch", "json"} /\ ~aborted /\ aborted') =>
          /\ pc' = "done"
          /\ reply'.settled = "aborted"
          /\ tenant' = Null
          /\ result' = [kind |-> "response", status |-> 404, body |-> "Not Found"]]_vars

C9_Witness ==
  /\ pc = "done"
  /\ aborted
  /\ reply.settled = "aborted"
  /\ reply.status = 200
  /\ tenant = Null
  /\ result.status = 404

\* C10: a request issues at most one lookup call, and a failed lookup is not
\* remembered: the next request for the same host issues a fresh lookup call
\* and is resolved when the endpoint then answers with a tenant.
C10_FailuresNotRemembered ==
  /\ lookups <= 1
  /\ (pc # "idle" /\ lastFailed # Null /\ originalHost = lastFailed) =>
       /\ lookups = 1
       /\ call.hostname = originalHost
  /\ (/\ pc = "done"
      /\ lastFailed # Null
      /\ originalHost = lastFailed
      /\ reply.settled = "parsed"
      /\ reply.body \in {Obj(Str(ORG_1), Str(ACME), Null),
                         Obj(Str(<<"o", "r", "g", "_", "2">>), Str(ACME), Str(BILLING))})
     => tenant = reply.body

C10_Witness ==
  /\ pc = "done"
  /\ lastFailed # Null
  /\ originalHost = lastFailed
  /\ failures >= 1
  /\ lookups = 1
  /\ Resolved

\* the request wrote an error entry to the log
ErrorLogged == \E i \in 1..Len(logs) : logs[i].level = "error"

\* the slug field of the parsed payload is there: neither undefined nor null
PayloadSlugPresent ==
  /\ reply.settled = "parsed"
  /\ reply.body.t = "obj"
  /\ ~IsNullish(reply.body.slug)

\* the slug field of the parsed payload fails the slug validity rule
PayloadSlugInvalid ==
  /\ PayloadSlugPresent
  /\ reply.body.slug.t = "str" => ~isSlugValid(reply.body.slug.v)

\* C11: when the endpoint answers OK with a payload whose slug field is present
\* and fails the slug validity rule, the resolver returns null, the answer is
\* 404, an error is logged, and the slug reaches no header and no rewritten path.
C11_InvalidPayloadSlugRejected ==
  (pc = "done" /\ PayloadSlugInvalid) =>
    /\ tenant = Null
    /\ result.kind = "response"
    /\ result.status = 404
    /\ ErrorLogged

\* the lookup call took an error path
LookupErrorPath ==
  \/ reply.settled \in {"rejected", "aborted", "unparsable"}
  \/ reply.settled = "response" /\ reply.status # 404
  \/ reply.settled = "parsed" /\ reply.body = Null
  \/ PayloadSlugInvalid

\* C12: resolveTenantByHostname never throws: it returns a value for every
\* behaviour of the lookup call, and every error path (network failure, timeout,
\* any thrown value, unparsable body, non-OK status other than 404, invalid
\* returned slug) returns null and writes a log entry.
C12_ErrorPathsReturnNullAndLog ==
  (pc = "done" /\ lookups > 0) =>
    /\ tenant # NotReturned
    /\ LookupErrorPath => (tenant = Null /\ ErrorLogged)

\* normalizeAndValidateHost has been called on a string
HostProbed ==
  probe.fn = "normalizeAndValidateHost" /\ probe.done /\ probe.arg.t = "str"

\* the text holds one of the patterns .. < > ' " backtick { } or javascript:
\* in any letter case
NamesSuspiciousPattern(h) ==
  \E p \in SuspiciousTokens : includes(toLowerCase(h), toLowerCase(p))

ValidHostnameProbed ==
  /\ HostProbed
  /\ probe.ret # Null
  /\ probe.ret.v # <<>>
  /\ trim(probe.arg.v) = probe.arg.v

\* C14: for every valid hostname H, normalizeAndValidateHost(H) equals
\* normalizeAndValidateHost("WWW." + H).
C14_WwwPrefixIrrelevant ==
  ValidHostnameProbed =>
    normalizeAndValidateHost(Str(<<"W", "W", "W", ".">> \o probe.arg.v)) = probe.ret

\* C15: every non-null result of normalizeAndValidateHost is a non-empty
\* hostname in normal form: lowercase, without a :port part, not ending in a
\* dot and not beginning with www.
C15_ResultInNormalForm ==
  (HostProbed /\ probe.ret # Null) =>
    /\ probe.ret.v # <<>>
    /\ Range(probe.ret.v) \cap Upper = {}
    /\ ":" \notin Range(probe.ret.v)
    /\ probe.ret.v[Len(probe.ret.v)] # "."
    /\ ~startsWith(probe.ret.v, <<"w", "w", "w", ".">>)

\* isSlugValid has been called
SlugProbed == probe.fn = "isSlugValid" /\ probe.done

\* the reserved words, as the rule lists them
ReservedWords ==
  { <<"a", "p", "i">>, <<"_", "n", "e", "x", "t">>, <<"s", "t", "a", "t", "i", "c">>,
    <<"p", "u", "b", "l", "i", "c">>, <<"a", "d", "m", "i", "n">>,
    <<"h", "e", "a", "l", "t", "h", "z">>,
    <<".", "w", "e", "l", "l", "-", "k", "n", "o", "w", "n">>,
    <<"f", "a", "v", "i", "c", "o", "n", ".", "i", "c", "o">>,
    <<"r", "o", "b", "o", "t", "s", ".", "t", "x", "t">>,
    <<"s", "i", "t", "e", "m", "a", "p", ".", "x", "m", "l">> }

\* C16: isSlugValid(s) is true exactly when s has 3 to 63 characters, all of
\* them a-z, 0-9 or hyphen, neither starts nor ends with a hyphen, holds no
\* double hyphen and is not a reserved word.
C16_SlugRule ==
  SlugProbed =>
    LET s == probe.arg.v
    IN probe.ret.b <=>
         /\ Len(s) >= 3
         /\ Len(s) <= 63
         /\ \A i \in 1..Len(s) : s[i] \in Lower \cup Digit \cup {"-"}
         /\ s[1] # "-"
         /\ s[Len(s)] # "-"
         /\ \A i \in 1..(Len(s) - 1) : ~(s[i] = "-" /\ s[i + 1] = "-")
         /\ s \notin ReservedWords

C16_Witness ==
  /\ SlugProbed
  /\ Len(probe.arg.v) = 63
  /\ "-" \in Range(probe.arg.v)
  /\ probe.ret = Bool(FALSE)

\* C17: every lookup request carries exactly one authentication header,
\* x-internal-secret with the shared secret when the secret is configured and
\* x-internal-call: tenant-resolver otherwise; it always carries the hostname
\* parameter, and the slug parameter exactly when the host is a subdomain of
\* the root domain.
C17_LookupRequestShape ==
  lookups > 0 =>
    /\ Cardinality(call.headers) = 1
    /\ env = EnvConfigured =>
         call.headers = {<<"x-internal-secret", <<"s", "3", "c", "r", "e", "t">>>>}
    /\ env = EnvDefault =>
         call.headers =
           {<<"x-internal-call",
              <<"t", "e", "n", "a", "n", "t", "-", "r", "e", "s", "o", "l", "v", "e", "r">>>>}
    /\ call.hostname = originalHost
    /\ call.hostname.t = "str"
    /\ call.slug # Undefined <=> endsWith(originalHost.v, <<".">> \o ROOT_DOMAIN(env))
    /\ call.slug # Undefined =>
         call.slug.v \o <<".">> \o ROOT_DOMAIN(env) = originalHost.v

C17_Witness ==
  /\ pc = "fetch"
  /\ env = EnvConfigured
  /\ call.slug = Str(ACME)
  /\ call.hostname = Str(ACME \o <<".", "a", "p", "p", ".", "i", "o">>)
  /\ call.headers = {<<"x-internal-secret", SECRET>>}

\* a lookup request without the slug parameter: the host is a custom domain
C17_CustomDomainWitness ==
  /\ pc = "fetch"
  /\ env = EnvDefault
  /\ call.slug = Undefined
  /\ call.hostname = Str(BILLING)

\* C18: the endpoint authorizes every caller before it touches the store: with
\* a secret configured it answers 401 unless x-internal-secret equals the secret
\* (the marker header alone does not authorize); with none configured it
\* answers 401 unless x-internal-call is tenant-resolver; an unauthorized
\* request never queries the store.
C18_AuthorizesBeforeStore ==
  LET rq == endpoint.request
      secretGiven == rq.internalSecret = Str(<<"s", "3", "c", "r", "e", "t">>)
      markerGiven ==
        rq.internalCall =
          Str(<<"t", "e", "n", "a", "n", "t", "-", "r", "e", "s", "o", "l", "v", "e", "r">>)
      refused == /\ endpoint.pc = "done"
                 /\ endpoint.response.status = 401
                 /\ endpoint.queries = 0
  IN endpoint.pc # "idle" =>
       /\ (env = EnvConfigured /\ ~secretGiven) => refused
       /\ (env = EnvConfigured /\ secretGiven) => endpoint.response.status # 401
       /\ (env = EnvDefault /\ ~markerGiven) => refused
       /\ (env = EnvDefault /\ markerGiven) => endpoint.response.status # 401

C18_Witness ==
  /\ env = EnvConfigured
  /\ endpoint.pc = "done"
  /\ endpoint.request.method = "HEAD"
  /\ endpoint.request.internalSecret = Null
  /\ endpoint.request.internalCall = Str(TENANT_RESOLVER)
  /\ endpoint.request.slug = Str(ACME)
  /\ store # {}
  /\ endpoint.response.status = 401
  /\ endpoint.queries = 0

\* the request in hand carries what the configuration asks for
CallerAuthorized ==
  \/ env = EnvConfigured /\ endpoint.request.internalSecret = Str(SECRET)
  \/ env = EnvDefault /\ endpoint.request.internalCall = Str(TENANT_RESOLVER)

\* a query parameter is given: present and not empty
Given(x) == x.t = "str" /\ x.v # <<>>

\* the organizations whose slug is the slug parameter or whose customDomain is
\* the hostname parameter
Sought ==
  {org \in store :
     \/ Given(endpoint.request.slug) /\ org.slug = endpoint.request.slug
     \/ Given(endpoint.request.hostname) /\ org.customDomain = endpoint.request.hostname}

\* C19: for an authorized request the endpoint answers 200 with id, slug and
\* customDomain of an organization whose slug is the slug parameter or whose
\* customDomain is the hostname parameter whenever there is one, 404 when there
\* is none, 400 when neither parameter is given, 500 when the query fails; it
\* never returns an organization that matches neither parameter.
C19_EndpointAnswers ==
  (endpoint.pc = "done" /\ CallerAuthorized) =>
    IF ~Given(endpoint.request.slug) /\ ~Given(endpoint.request.hostname)
      THEN endpoint.response.status = 400 /\ endpoint.queries = 0
    ELSE IF endpoint.rejected THEN endpoint.response.status = 500
    ELSE IF Sought = {} THEN endpoint.response.status = 404
    ELSE /\ endpoint.response.status = 200
         /\ \E org \in Sought :
              endpoint.response.body =
                [t |-> "obj", id |-> org.id, slug |-> org.slug,
                 customDomain |-> org.customDomain]

C19_Witness ==
  /\ endpoint.pc = "done"
  /\ CallerAuthorized
  /\ endpoint.request.slug = Str(ACME)
  /\ endpoint.request.hostname = Str(ACME_HOST)
  /\ endpoint.response.status = 200
  /\ endpoint.response.body.customDomain = Str(ACME_HOST)
  /\ endpoint.response.body.slug # Str(ACME)

\* the value the resolver returns for a settled lookup call, taken alone
OwnValue(settled) ==
  IF settled.settled = "parsed" THEN validatePayload(settled.body).value ELSE Null

\* the outcome of the request of invocation v when it runs alone: from its own
\* host, path, times and the reply to its own lookup call
AloneOutcome(v) ==
  LET host == normalizeAndValidateHost(v.req.headers["host"])
  IN IF ~Truthy(host) THEN [kind |-> "response", status |-> 400, body |-> "Bad Request"]
     ELSE IF host.v = ROOT_DOMAIN(env) THEN NextPlain(v.req)
     ELSE LET slug == SubSeq(host.v, 1, Len(host.v) - Len(ROOT_DOMAIN(env)) - 1)
          IN IF endsWith(host.v, <<".">> \o ROOT_DOMAIN(env)) /\ ~isSlugValid(slug)
               THEN [kind |-> "response", status |-> 404, body |-> "Not Found"]
               ELSE route(v.req, OwnValue(v.reply), host.v, v.startTime,
                          v.returnedAt).result

scopeSegment(pathname) == splitFirst(sliceFrom(pathname, 3), "/")

\* C21: for every resolved request on the host of a tenant T the path forwarded
\* downstream is never inside another tenant's namespace: its first two
\* segments are never s followed by a slug other than T.slug.
C21_NoForeignNamespace ==
  (pc = "done" /\ Resolved /\ result.kind \in {"next", "rewrite"}) =>
    (startsWith(result.pathname, <<"/", "s", "/">>) =>
       scopeSegment(result.pathname) = toJsString(field(tenant, "slug")))

\* the value middleware sets for a tenant header from the resolved tenant
FromTenant(name) ==
  Str(trim(toJsString(
    CASE name = "x-tenant-id" -> field(tenant, "id")
      [] name = "x-tenant-slug" -> field(tenant, "slug")
      [] name = "x-tenant-domain" ->
           IF IsNullish(field(tenant, "customDomain"))
             THEN originalHost ELSE field(tenant, "customDomain"))))

\* C22: a request forwarded downstream with an x-tenant-id, x-tenant-slug or
\* x-tenant-domain header carries the value middleware set from the tenant
\* resolved for it; a value the client supplied never reaches downstream, on
\* any forwarding outcome, the root-domain pass-through included.
C22_TenantHeadersFromResolution ==
  (pc = "done" /\ result.kind \in {"next", "rewrite"}) =>
    \A name \in {"x-tenant-id", "x-tenant-slug", "x-tenant-domain"} :
      result.headers[name] # Null =>
        (Resolved /\ result.headers[name] = FromTenant(name))

\* C23: for a host S.<root-domain> with a valid slug S, whenever the request is
\* resolved the tenant whose identity is injected has slug S, for every content
\* of the organization table with unique slugs and unique custom domains.
C23_SubdomainResolvesToItsSlug ==
  \A S \in {<<"a", "c", "m", "e">>, <<"s", "h", "o", "p">>,
            <<"n", "o", "b", "o", "d", "y">>} :
    (pc = "done" /\ Resolved /\ originalHost = Str(S \o <<".">> \o ROOT_DOMAIN(env))) =>
      /\ field(tenant, "slug") = Str(S)
      /\ result.kind \in {"next", "rewrite"} => result.headers["x-tenant-slug"] = Str(S)

\* C24: a request whose Host header is the host of the configured base URL is
\* classified as root domain; the lookup request, which carries that Host, is
\* passed through by middleware without another lookup being started.
C24_BaseUrlHostIsRoot ==
  \A i \in Invocations :
    (/\ inv[i].pc # "idle"
     /\ inv[i].req.headers["host"] = Str(urlHost(BASE_URL(env))))
    => /\ inv[i].pc = "done"
       /\ inv[i].result = NextPlain(inv[i].req)

\* the outcomes a request can end in: 400, 404, pass-through, pass-through with
\* tenant headers, rewrite
TerminalOutcome ==
  /\ pc = "done"
  /\ \/ result.kind \in {"next", "rewrite"}
     \/ result.kind = "response" /\ result.status \in {400, 404}

\* C25: every request that middleware has begun eventually ends in a 400, a
\* 404, a pass-through, a pass-through with headers or a rewrite, even when the
\* lookup call is never answered, given that the timer eventually fires.
C25_EveryRequestEnds == (pc # "idle") ~> TerminalOutcome

\* a suspended request eventually returns, whatever it returns
SuspendedRequestReturns == (pc \in {"fetch", "json"}) ~> (pc = "done")

\* C26: when resolveTenantByHostname has returned, on whichever path, no timer
\* of the request is armed: it was never armed or it has been cleared; and a
\* request for which a tenant was returned has not been aborted, however late
\* it is.
C26_NoTimerOutlivesRequest ==
  /\ pc \in {"idle", "done"} => ~timer.armed
  /\ (pc = "done" /\ Resolved) => ~aborted

\* a tenant was returned and the time of the timeout has passed since
C26_Witness ==
  /\ pc = "done"
  /\ Resolved
  /\ lookups = 1
  /\ now >= startTime + timerDelay(FETCH_TIMEOUT(env))

\* C27: whenever middleware injects tenant headers or rewrites a path, the slug
\* of the tenant it uses is a string accepted by isSlugValid, and so are the
\* x-tenant-slug header and the segment after /s/ of a rewritten path, for
\* every payload of an OK response, one with an empty or missing slug included.
C27_UsedSlugValid ==
  (pc = "done" /\ Resolved /\ ForwardedWithHeaders) =>
    /\ field(tenant, "slug").t = "str"
    /\ isSlugValid(toJsString(field(tenant, "slug")))
    /\ isSlugValid(result.headers["x-tenant-slug"].v)
    /\ result.kind = "rewrite" => isSlugValid(scopeSegment(result.pathname))

\* C28: when the lookup call is answered with a status that is not OK, the
\* resolver logs one error if the status is not 404 and logs nothing if the
\* status is 404.
C28_NonOkStatusLogging ==
  (pc = "done" /\ reply.settled = "response" /\ ~ok(reply.status)) =>
    /\ reply.status # 404 => logs = <<Error("Tenant resolution failed with status")>>
    /\ reply.status = 404 => logs = <<>>

\* the lookup call was answered 500 and the error is in the log
C28_Witness ==
  /\ pc = "done"
  /\ reply.settled = "response"
  /\ reply.status = 500
  /\ ErrorLogged

\* the lookup call was answered 404 and nothing was logged
NotFoundUnlogged ==
  /\ pc = "done"
  /\ reply.settled = "response"
  /\ reply.status = 404
  /\ logs = <<>>

\* the performance warning is in the log of the request
SlowWarningLogged ==
  \E i \in 1..Len(logs) : logs[i] = Warn("Slow middleware execution")

\* C29: for every request, whatever its outcome, a performance warning is
\* logged when the time from middleware entry to the routing decision exceeds
\* 100 ms.
C29_SlowRequestWarned ==
  (pc = "done" /\ now - startTime > SlowThreshold) => SlowWarningLogged

\* the procedure has ended
DomainAnswered == probe.fn = "getOrganizationByDomain" /\ probe.done

\* the organizations whose customDomain is the input domain
OrgsOfDomain == {o \in store : o.customDomain = probe.arg}

\* C30: getOrganizationByDomain returns the organization whose customDomain
\* equals the input domain when there is one, fails with NOT_FOUND when there
\* is none, and fails with INTERNAL_SERVER_ERROR, never with NOT_FOUND, when
\* the store query fails.
C30_DomainProcedure ==
  DomainAnswered =>
    IF probe.query = "rejected" THEN probe.ret = TRPCError("INTERNAL_SERVER_ERROR")
    ELSE IF OrgsOfDomain # {} THEN probe.ret \in OrgsOfDomain
    ELSE probe.ret = TRPCError("NOT_FOUND")

====
